---- MODULE Spec2Model ----
(***************************************************************************)
(* Model of src/app.py: the Streamlit document-labeling application.       *)
(*                                                                         *)
(* Text is modelled as a sequence of one-character strings, so that        *)
(* str.startswith, str.strip, str.lower and the regular expressions of     *)
(* clean_key_for_matching are computed character by character.             *)
(*                                                                         *)
(* Seven specifications share the module:                                  *)
(*   SpecLocate    the word-sequence search of the label save step,        *)
(*                 applied to every small analysis result and short text;  *)
(*   SpecKvp       the construction of the suggestion map doc_kvp_map;     *)
(*   SpecGeometry  combine_polygons applied to every small polygon list;   *)
(*   SpecRemove    the remove button of step 1, applied to every small     *)
(*                 field list;                                             *)
(*   SpecFields    the field-configuration step (step 1) of a session;     *)
(*   Spec          a session with the labeling step (step 2), one document;*)
(*   SpecCache     the analysis cache of a session with two documents.     *)
(* In SpecFields, Spec and SpecCache an action is one user interaction:    *)
(* the whole script run it triggers, and the run that st.rerun() starts    *)
(* after it.                                                               *)
(***************************************************************************)
EXTENDS Integers, Sequences, FiniteSets, TLC

VARIABLES
    loc,          \* SpecLocate: an analysis result, the submitted text, the search result
    kvp,          \* SpecKvp: an analysis result and the suggestion map built from it
    geo,          \* SpecGeometry: a list of polygons and what combine_polygons returns
    rem,          \* SpecRemove: a field list, the removed index and the list afterwards
    app_mode,     \* st.session_state.app_mode, the mode radio
    step,         \* the step radio of the custom mode
    fields,       \* st.session_state.fields
    fields_file,  \* the file FIELDS_FILE
    edit_w,       \* the Name and Type widgets of the configured fields (step 1)
    out,          \* what the last interaction displayed (st.success, st.warning, st.error)
    sel_file,     \* the uploaded document selected in step 2: its name and content
    doc_cache,    \* st.session_state[doc_k], per document name
    kvp_cache,    \* st.session_state[doc_kvp_k], per document name
    label_files,  \* the files of LABELS_DIR, per base name
    ocr_files,    \* the files of OCR_DIR, per base name
    submitted,    \* the last submitted labeling form: its texts and the label
                  \* file that run read (loaded, line 365)
    form_w        \* the initial values of the inputs of the labeling form the
                  \* last run built (init_val); <<>> when it built no form

pureVars == <<loc, kvp, geo, rem>>
uiVars == <<app_mode, step, fields, fields_file, edit_w, out>>
docVars == <<sel_file, doc_cache, kvp_cache, label_files, ocr_files, submitted, form_w>>
vars == <<loc, kvp, geo, rem, app_mode, step, fields, fields_file, edit_w, out, sel_file,
          doc_cache, kvp_cache, label_files, ocr_files, submitted, form_w>>
storeVars == <<doc_cache, kvp_cache, label_files, ocr_files, submitted>>

\* ------------------------------------------------------------------ bounds

\* Most words of one analysis result (both pages together) in SpecLocate.
MaxWords == 3
\* Longest text submitted for a field in SpecLocate, in characters.
MaxTextLen == 4
\* Most typed fields (over both documents), and most key-value pairs, of one
\* analysis result in SpecKvp.
MaxDocFields == 2
MaxKvps == 2
\* Most polygons of one call of combine_polygons in SpecGeometry.
MaxPolygons == 3
\* Most configured fields of the fields file in SpecRemove.
MaxRemFields == 3

\* ------------------------------------------------------------------- dicts

\* A Python dict as a function; d[k] = v, and del d[k].
DictSet(d, k, v) == [q \in DOMAIN d \cup {k} |-> IF q = k THEN v ELSE d[q]]
DictDel(d, k) == [q \in DOMAIN d \ {k} |-> d[q]]
EmptyDict == [q \in {} |-> q]

\* ------------------- values of the variables a specification does not use

\* No uploaded document is selected.
NoSel == [set |-> FALSE, name |-> <<>>, content |-> 0]

NoSubmit == [done |-> FALSE]

IdleLoc == [searched |-> FALSE]
IdleKvp == [built |-> FALSE]
IdleGeo == [combined |-> FALSE]
IdleRem == [clicked |-> FALSE]
IdlePure == loc = IdleLoc /\ kvp = IdleKvp /\ geo = IdleGeo /\ rem = IdleRem
IdleDocs ==
    /\ sel_file = NoSel
    /\ doc_cache = EmptyDict
    /\ kvp_cache = EmptyDict
    /\ label_files = EmptyDict
    /\ ocr_files = EmptyDict
    /\ submitted = NoSubmit
    /\ form_w = <<>>
IdleSession ==
    /\ app_mode = "Pre-built Analysis"
    /\ step = "Define Fields"
    /\ fields = <<>>
    /\ fields_file = [fields |-> <<>>, exists |-> FALSE]
    /\ edit_w = <<>>
    /\ out = {}
    /\ IdleDocs

\* ------------------------------------------------------------------- text

Space == " "
Whitespace == {Space}

\* Characters a submitted field text is made of.
TextChars == {"a", "b", Space}

\* Every text of at most n characters over the set chars.
TextsUpTo(chars, n) == UNION {[1..k -> chars] : k \in 0..n}

\* str.startswith(p) on s.
StartsWith(s, p) == Len(p) <= Len(s) /\ SubSeq(s, 1, Len(p)) = p

RECURSIVE LStrip(_)
LStrip(s) == IF s # <<>> /\ Head(s) \in Whitespace THEN LStrip(Tail(s)) ELSE s

RECURSIVE RStrip(_)
RStrip(s) ==
    IF s # <<>> /\ s[Len(s)] \in Whitespace THEN RStrip(SubSeq(s, 1, Len(s) - 1)) ELSE s

\* str.strip(): leading and trailing whitespace removed.
Strip(s) == RStrip(LStrip(s))

\* str.lower() on one character and on a text.
LowerChar(c) == CASE c = "A" -> "a" [] c = "B" -> "b" [] OTHER -> c
Lower(s) == [k \in 1..Len(s) |-> LowerChar(s[k])]

\* \w of a regular expression, among the characters the model uses.
WordChars == {"a", "b", "c", "d", "p", "A", "B", "x", "v"}

\* re.sub(r'[:.\s]+$', '', s)
RECURSIVE StripTrailing(_)
StripTrailing(s) ==
    IF s # <<>> /\ s[Len(s)] \in ({":", "."} \cup Whitespace)
    THEN StripTrailing(SubSeq(s, 1, Len(s) - 1)) ELSE s

\* re.sub(r'[^\w\s-]', '', s)
KeepWordChars(s) == SelectSeq(s, LAMBDA c : c \in WordChars \cup Whitespace \cup {"-"})

clean_key_for_matching(key_text) ==
    IF key_text = <<>> THEN <<>>
    ELSE Strip(KeepWordChars(StripTrailing(Lower(key_text))))

\* ------------------------------------------------------- analysis result

\* Word contents the recognizer returns; <<>> is a word whose content is
\* empty or None (both falsy in the code's tests).
WordPool == {<<>>, <<"a">>, <<"a", "b">>}

\* page_number values of a page; 0 is a missing (falsy) page number.
PageNumberPool == {0, 1, 2}

\* page_num = pg.page_number if pg.page_number else pg_idx + 1
\* (pg_idx is 1-based here, so the fallback is pg_idx itself).
PageNum(pg, pg_idx) == IF pg.page_number # 0 THEN pg.page_number ELSE pg_idx

RECURSIVE PageWords(_, _, _)
PageWords(words, page_num, k) ==
    IF k > Len(words) THEN <<>>
    ELSE <<[content |-> words[k].content, polygon |-> words[k].polygon,
            page |-> page_num]>> \o PageWords(words, page_num, k + 1)

RECURSIVE AllDocWordsFrom(_, _)
AllDocWordsFrom(pages, pg_idx) ==
    IF pg_idx > Len(pages) THEN <<>>
    ELSE PageWords(pages[pg_idx].words, PageNum(pages[pg_idx], pg_idx), 1)
         \o AllDocWordsFrom(pages, pg_idx + 1)

\* all_doc_words: the words of all pages in document order, each with the
\* page_num computed for its page.
AllDocWords(doc_res) == AllDocWordsFrom(doc_res.pages, 1)

\* ------------------------------------------------- word-sequence search

\* The search result: found_match and matched_word_objects.  The matched
\* word dicts are represented by their indices in all_doc_words.
NoMatch == [found_match |-> FALSE, matched |-> <<>>]

\* LookAhead without the test that the next word is on the page of the start word.
RECURSIVE LookAhead_NoPageTest(_, _, _, _, _, _)
LookAhead_NoPageTest(all_doc_words, text_value, j, current_match_text, current_match_words, current_page) ==
    IF j > Len(all_doc_words) THEN NoMatch
    ELSE LET next_word == all_doc_words[j]
             potential_text == current_match_text \o <<Space>> \o next_word.content
         IN  IF next_word.content = <<>>
             THEN NoMatch
             ELSE IF StartsWith(text_value, potential_text)
                  THEN IF potential_text = text_value
                       THEN [found_match |-> TRUE,
                             matched |-> Append(current_match_words, j)]
                       ELSE LookAhead_NoPageTest(all_doc_words, text_value, j + 1,
                                                 potential_text,
                                                 Append(current_match_words, j),
                                                 current_page)
                  ELSE NoMatch

RECURSIVE LookAhead(_, _, _, _, _, _)
LookAhead(all_doc_words, text_value, j, current_match_text, current_match_words, current_page) ==
    IF j > Len(all_doc_words) THEN NoMatch
    ELSE LET next_word == all_doc_words[j]
             potential_text == current_match_text \o <<Space>> \o next_word.content
         IN  IF next_word.page # current_page \/ next_word.content = <<>>
             THEN NoMatch
             ELSE IF StartsWith(text_value, potential_text)
                  THEN IF potential_text = text_value
                       THEN [found_match |-> TRUE,
                             matched |-> Append(current_match_words, j)]
                       ELSE LookAhead(all_doc_words, text_value, j + 1,
                                      potential_text,
                                      Append(current_match_words, j), current_page)
                  ELSE NoMatch

RECURSIVE SearchFrom(_, _, _)
SearchFrom(all_doc_words, text_value, i) ==
    IF i > Len(all_doc_words) THEN NoMatch
    ELSE LET start_word == all_doc_words[i]
         IN  IF start_word.content = <<>>
                \/ ~StartsWith(text_value, start_word.content)
             THEN SearchFrom(all_doc_words, text_value, i + 1)
             ELSE IF start_word.content = text_value
                  THEN [found_match |-> TRUE, matched |-> <<i>>]
                  ELSE LET r == LookAhead(all_doc_words, text_value, i + 1,
                                          start_word.content, <<i>>,
                                          start_word.page)
                       IN  IF r.found_match THEN r
                           ELSE SearchFrom(all_doc_words, text_value, i + 1)

FindMatch(all_doc_words, text_value) == SearchFrom(all_doc_words, text_value, 1)

\* --------------------------------------------------------------- polygons

\* A polygon is a sequence of Point objects or of plain numbers; the elements
\* carry their Python type in k.  <<>> is an empty or missing (None) polygon.
Point(x, y) == [k |-> "Point", v |-> 0, x |-> x, y |-> y]
Number(v) == [k |-> "number", v |-> v, x |-> 0, y |-> 0]

\* math.inf; every coordinate of the model is smaller.
PosInf == 1000
NegInf == -PosInf

Min2(a, b) == IF a < b THEN a ELSE b
Max2(a, b) == IF a > b THEN a ELSE b

\* points_to_process that takes lists of Point objects only.
PointsToProcess_PointsOnly(polygon) == IF polygon[1].k = "Point" THEN polygon ELSE <<>>

\* points_to_process of one polygon (lines 81-89): the polygon itself when its
\* first element is a Point, the points rebuilt from a flat list of even
\* length, nothing for any other format.
PointsToProcess(polygon) ==
    IF polygon[1].k = "Point" THEN polygon
    ELSE IF polygon[1].k = "number" /\ Len(polygon) % 2 = 0
         THEN [i \in 1..(Len(polygon) \div 2) |->
                  Point(polygon[2 * i - 1].v, polygon[2 * i].v)]
         ELSE <<>>

RECURSIVE BoxOfPoints(_, _, _)
BoxOfPoints(box, points, k) ==
    IF k > Len(points) THEN box
    ELSE BoxOfPoints([min_x |-> Min2(box.min_x, points[k].x),
                      min_y |-> Min2(box.min_y, points[k].y),
                      max_x |-> Max2(box.max_x, points[k].x),
                      max_y |-> Max2(box.max_y, points[k].y)], points, k + 1)

RECURSIVE BoxOfPolygons(_, _, _)
BoxOfPolygons(box, polygons, k) ==
    IF k > Len(polygons) THEN box
    ELSE IF polygons[k] = <<>> THEN BoxOfPolygons(box, polygons, k + 1)
    ELSE BoxOfPolygons(BoxOfPoints(box, PointsToProcess(polygons[k]), 1),
                       polygons, k + 1)

\* combine_polygons that takes the box of the first polygon only.
combine_polygons_FirstOnly(polygons) ==
    LET box == BoxOfPolygons([min_x |-> PosInf, min_y |-> PosInf,
                              max_x |-> NegInf, max_y |-> NegInf],
                             SubSeq(polygons, 1, 1), 1)
    IN  IF polygons = <<>> \/ box.min_x \in {PosInf, NegInf} THEN <<>>
        ELSE <<Point(box.min_x, box.min_y), Point(box.max_x, box.min_y),
               Point(box.max_x, box.max_y), Point(box.min_x, box.max_y)>>

\* combine_polygons (lines 70-105); the result None is <<>>.
combine_polygons(polygons) ==
    LET box == BoxOfPolygons([min_x |-> PosInf, min_y |-> PosInf,
                              max_x |-> NegInf, max_y |-> NegInf], polygons, 1)
    IN  IF polygons = <<>> \/ box.min_x \in {PosInf, NegInf} THEN <<>>
        ELSE <<Point(box.min_x, box.min_y), Point(box.max_x, box.min_y),
               Point(box.max_x, box.max_y), Point(box.min_x, box.max_y)>>

RECURSIVE FlatPoints(_, _)
FlatPoints(polygon, k) ==
    IF k > Len(polygon) THEN <<>>
    ELSE <<polygon[k].x, polygon[k].y>> \o FlatPoints(polygon, k + 1)

\* flatten_polygon (lines 50-67): [x1, y1, x2, y2, ...] of a list of Points, a
\* flat list of even length as it is, [] for any other format.
flatten_polygon(polygon) ==
    IF polygon = <<>> THEN <<>>
    ELSE IF polygon[1].k = "Point" THEN FlatPoints(polygon, 1)
    ELSE IF polygon[1].k = "number" /\ Len(polygon) % 2 = 0
         THEN [i \in 1..Len(polygon) |-> polygon[i].v]
         ELSE <<>>

\* ------------------------------------------------------------ label save

\* A value of a label: value_details, a dict with the key text and, when set,
\* the keys page and polygon.
TextOnly(text_value) ==
    [polygon |-> <<>>, page |-> 0, text |-> text_value,
     has_page |-> FALSE, has_polygon |-> FALSE]

\* value_details with the page of the first word written whatever the search found.
LabelValue_PageAlways(text_value, all_doc_words) ==
    [TextOnly(text_value) EXCEPT
        !.has_page = TRUE,
        !.page = IF all_doc_words = <<>> THEN 1 ELSE all_doc_words[1].page]

\* value_details of one field (lines 480-539): the text, and page and polygon
\* when the search found a match and the polygons of the matched words
\* combine to a box.
LabelValue(text_value, all_doc_words) ==
    LET r == FindMatch(all_doc_words, text_value)
        combined_poly_points ==
            IF r.found_match /\ r.matched # <<>>
            THEN combine_polygons([k \in 1..Len(r.matched) |->
                                      all_doc_words[r.matched[k]].polygon])
            ELSE <<>>
    IN  IF combined_poly_points # <<>>
        THEN [polygon |-> flatten_polygon(combined_poly_points),
              page |-> all_doc_words[r.matched[1]].page, text |-> text_value,
              has_page |-> TRUE, has_polygon |-> TRUE]
        ELSE TextOnly(text_value)

\* The warning of lines 535 and 539 for a field saved without location.
LabelWarning(field_key, text_value, all_doc_words) ==
    IF LabelValue(text_value, all_doc_words).has_polygon THEN {}
    ELSE IF FindMatch(all_doc_words, text_value).found_match
         THEN {[msg |-> "couldn't combine polygons", arg |-> field_key]}
         ELSE {[msg |-> "No exact word sequence found", arg |-> field_key]}

\* form_vals (lines 397-427): a dict keyed by field key, in the order of the
\* first field of each key, holding the text of the last field of that key.
FormVals(fs, texts) ==
    LET firsts == {i \in 1..Len(fs) :
                      \A j \in 1..(i - 1) : fs[j].fieldKey # fs[i].fieldKey}
        LastOf(key) == CHOOSE i \in 1..Len(fs) :
                          /\ fs[i].fieldKey = key
                          /\ \A j \in 1..Len(fs) : fs[j].fieldKey = key => j <= i
        Entry(i) == [text |-> texts[LastOf(fs[i].fieldKey)], field_key |-> fs[i].fieldKey]
        nth[n \in 0..Len(fs)] ==
            IF n = 0 THEN <<>>
            ELSE IF n \in firsts THEN Append(nth[n - 1], Entry(n)) ELSE nth[n - 1]
    IN  nth[Len(fs)]

\* final_labels with a record for every item of form_vals, blank or not.
RECURSIVE FinalLabels_KeepBlank(_, _, _)
FinalLabels_KeepBlank(form_vals, all_doc_words, k) ==
    IF k > Len(form_vals) THEN <<>>
    ELSE <<[label |-> form_vals[k].field_key,
            value |-> <<LabelValue(Strip(form_vals[k].text), all_doc_words)>>]>>
         \o FinalLabels_KeepBlank(form_vals, all_doc_words, k + 1)

\* final_labels (lines 456-543): one entry per item of form_vals whose stripped
\* text is not empty.
RECURSIVE FinalLabels(_, _, _)
FinalLabels(form_vals, all_doc_words, k) ==
    IF k > Len(form_vals) THEN <<>>
    ELSE LET text_value == Strip(form_vals[k].text)
         IN  (IF text_value # <<>>
              THEN <<[label |-> form_vals[k].field_key,
                      value |-> <<LabelValue(text_value, all_doc_words)>>]>>
              ELSE <<>>)
             \o FinalLabels(form_vals, all_doc_words, k + 1)

RECURSIVE SaveWarnings(_, _, _)
SaveWarnings(form_vals, all_doc_words, k) ==
    IF k > Len(form_vals) THEN {}
    ELSE LET text_value == Strip(form_vals[k].text)
         IN  (IF text_value # <<>>
              THEN LabelWarning(form_vals[k].field_key, text_value, all_doc_words)
              ELSE {})
             \cup SaveWarnings(form_vals, all_doc_words, k + 1)

\* The fields map with the type "string" for every key.
FieldTypeMap_AllString(fs) ==
    [key \in {fs[i].fieldKey : i \in 1..Len(fs)} |-> [fieldType |-> "string"]]

\* "fields" of final_lbl_fc (line 549): a dict from field key to its type; of
\* two fields with one key the later one gives the type.
FieldTypeMap(fs) ==
    [key \in {fs[i].fieldKey : i \in 1..Len(fs)} |->
        [fieldType |->
            fs[CHOOSE i \in 1..Len(fs) :
                  /\ fs[i].fieldKey = key
                  /\ \A j \in 1..Len(fs) : fs[j].fieldKey = key => j <= i].fieldType]]

\* final_lbl_fc (lines 547-551), the content of the label file; the constant
\* "$schema" entry is left out.
final_lbl_fc(fs, form_vals, all_doc_words) ==
    [fields |-> FieldTypeMap(fs),
     exists |-> TRUE,
     labels |-> FinalLabels(form_vals, all_doc_words, 1)]

NoLabelFile == [fields |-> EmptyDict, exists |-> FALSE, labels |-> <<>>]

\* ocr_out (lines 436-450): every word with its flattened polygon (null when
\* the word has none), confidence and page number.
RECURSIVE OcrPageWords(_, _, _)
OcrPageWords(words, page_num, k) ==
    IF k > Len(words) THEN <<>>
    ELSE <<[polygon |-> [null |-> words[k].polygon = <<>>,
                         flat |-> flatten_polygon(words[k].polygon)],
            page |-> page_num,
            text |-> words[k].content,
            confidence |-> words[k].confidence]>> \o OcrPageWords(words, page_num, k + 1)

RECURSIVE OcrWordsFrom(_, _)
OcrWordsFrom(pages, pg_idx) ==
    IF pg_idx > Len(pages) THEN <<>>
    ELSE OcrPageWords(pages[pg_idx].words, PageNum(pages[pg_idx], pg_idx), 1)
         \o OcrWordsFrom(pages, pg_idx + 1)

ocr_out(doc_res) == [exists |-> TRUE, words |-> OcrWordsFrom(doc_res.pages, 1)]

\* ------------------------------------------------------ suggestion map

\* The loop state of the map construction: the map, the script variable ckey
\* (unbound until its first assignment) and whether a NameError was raised.
KvpStart == [map |-> EmptyDict, ckey |-> [bound |-> FALSE, val |-> <<>>],
             error |-> FALSE]

\* One iteration of "for fname, fobj in doc.fields.items()" (lines 342-344).
\* Line 344 is not under the if of line 343: it runs for every field, with
\* the ckey of the last field that had content.
FieldStep(st, fname, fobj) ==
    LET ckey == IF fobj.content # <<>>
                THEN [bound |-> TRUE, val |-> clean_key_for_matching(fname)]
                ELSE st.ckey
    IN  IF st.error THEN st
        ELSE IF ~ckey.bound THEN [st EXCEPT !.error = TRUE]
        ELSE IF ckey.val # <<>>
             THEN [st EXCEPT !.ckey = ckey, !.map = DictSet(st.map, ckey.val, fobj)]
             ELSE [st EXCEPT !.ckey = ckey]

RECURSIVE FieldsPass(_, _, _)
FieldsPass(st, doc_fields, k) ==
    IF k > Len(doc_fields) THEN st
    ELSE FieldsPass(FieldStep(st, doc_fields[k].name, doc_fields[k].fobj),
                    doc_fields, k + 1)

\* "for doc in doc_result.documents" (lines 339-344).
RECURSIVE DocumentsPass(_, _, _)
DocumentsPass(st, documents, d) ==
    IF d > Len(documents) THEN st
    ELSE DocumentsPass(FieldsPass(st, documents[d].fields, 1), documents, d + 1)

\* The key-value pass without the "not in doc_kvp_map" test of line 348.
KvpStep_Overwrite(st, pair) ==
    LET ckey == IF pair.key # <<>> /\ pair.has_value
                THEN [bound |-> TRUE, val |-> clean_key_for_matching(pair.key)]
                ELSE st.ckey
    IN  IF st.error THEN st
        ELSE IF ~ckey.bound THEN [st EXCEPT !.error = TRUE]
        ELSE IF ckey.val # <<>>
             THEN [st EXCEPT !.ckey = ckey,
                             !.map = DictSet(st.map, ckey.val, pair.value)]
             ELSE [st EXCEPT !.ckey = ckey]

\* One iteration of "for kvp in doc_result.key_value_pairs" (lines 346-349).
\* pair.key is kvp.key.content, <<>> when kvp.key is None or has no content.
KvpStep(st, pair) ==
    LET ckey == IF pair.key # <<>> /\ pair.has_value
                THEN [bound |-> TRUE, val |-> clean_key_for_matching(pair.key)]
                ELSE st.ckey
    IN  IF st.error THEN st
        ELSE IF ~ckey.bound THEN [st EXCEPT !.error = TRUE]
        ELSE IF ckey.val # <<>> /\ ckey.val \notin DOMAIN st.map
             THEN [st EXCEPT !.ckey = ckey,
                             !.map = DictSet(st.map, ckey.val, pair.value)]
             ELSE [st EXCEPT !.ckey = ckey]

RECURSIVE KvpPass(_, _, _)
KvpPass(st, key_value_pairs, k) ==
    IF k > Len(key_value_pairs) THEN st
    ELSE KvpPass(KvpStep(st, key_value_pairs[k]), key_value_pairs, k + 1)

\* The typed-field pass, then the whole construction (lines 338-349).
TypedPass(doc_result) == DocumentsPass(KvpStart, doc_result.documents, 1)
BuildDocKvpMap(doc_result) == KvpPass(TypedPass(doc_result), doc_result.key_value_pairs, 1)

\* ------------------------------------------------------ field definitions

PreBuilt == "Pre-built Analysis"
Custom == "Custom Model Training"
DefineFields == "Define Fields"
LabelDocuments == "Label Documents"

field_types ==
    <<"string", "number", "integer", "date", "time", "phoneNumber", "currency",
      "address", "boolean", "selectionMark", "countryRegion", "signature", "array",
      "object", "voucher">>

FieldDef(k, t, f) == [fieldKey |-> k, fieldType |-> t, fieldFormat |-> f]

NoFile == [fields |-> <<>>, exists |-> FALSE]
FileOf(fs) == [fields |-> fs, exists |-> TRUE]

\* A displayed message.
Msg(m, arg) == [msg |-> m, arg |-> arg]

\* load_fields(): st.session_state.fields becomes the list of the file, or []
\* when there is no file.  It runs at the top of every script run of the
\* custom mode (line 266), whatever the session's list was.
load_fields(file, session_fields) == IF file.exists THEN file.fields ELSE <<>>

\* The default values of the Name and Type widgets of a field list.
WidgetDefaults(fs) == [i \in 1..Len(fs) |-> [n |-> fs[i].fieldKey, t |-> fs[i].fieldType]]

\* any(f["fieldKey"].lower() == nk.strip().lower() for f in fields)
KeyExists(fs, nk) == \E i \in 1..Len(fs) : Lower(fs[i].fieldKey) = Lower(Strip(nk))

\* keys_edit = {f['fieldKey'].lower(): i for i, f in enumerate(fields)}:
\* of two fields with one lower-cased key, the later one is kept.
KeysEdit(fs) ==
    [k \in {Lower(fs[i].fieldKey) : i \in 1..Len(fs)} |->
        CHOOSE i \in 1..Len(fs) :
            /\ Lower(fs[i].fieldKey) = k
            /\ \A j \in 1..Len(fs) : Lower(fs[j].fieldKey) = k => j <= i]

\* The state of the loop over the configured fields (lines 283-297): the list,
\* keys_edit, what was displayed, whether the run was ended by st.rerun()
\* (line 291) or by an uncaught KeyError (line 297).
EditStart(fs) ==
    [fields |-> fs, out |-> {}, keys_edit |-> KeysEdit(fs), rerun |-> FALSE,
     crashed |-> FALSE]

\* One iteration for field idx, whose widgets hold w (lines 285-297).
EditStep(st, idx, w, remove_clicked) ==
    LET fld == st.fields[idx]
        nks == Strip(w.n)
        nkl == Lower(nks)
        okl == Lower(fld.fieldKey)
        edited == [st.fields EXCEPT
                      ![idx] = FieldDef(nks, w.t, fld.fieldFormat)]
    IN  IF remove_clicked THEN [st EXCEPT !.rerun = TRUE]
        ELSE IF nks = <<>>
             THEN [st EXCEPT !.out = @ \cup {Msg("Empty name", fld.fieldKey)}]
        ELSE IF nkl # okl /\ nkl \in DOMAIN st.keys_edit /\ st.keys_edit[nkl] # idx
             THEN [st EXCEPT !.out = @ \cup {Msg("conflicts", nks)}]
        ELSE IF fld.fieldKey # nks \/ fld.fieldType # w.t
             THEN IF nkl # okl
                  THEN IF okl \in DOMAIN st.keys_edit
                       THEN [st EXCEPT !.fields = edited,
                                       !.keys_edit = DictSet(DictDel(@, okl), nkl, idx)]
                       ELSE [st EXCEPT !.fields = edited, !.crashed = TRUE]
                  ELSE [st EXCEPT !.fields = edited]
        ELSE st

RECURSIVE EditLoop(_, _, _, _)
EditLoop(st, widgets, idx, rm_idx) ==
    IF idx > Len(st.fields) \/ st.rerun \/ st.crashed THEN st
    ELSE EditLoop(EditStep(st, idx, widgets[idx], idx = rm_idx), widgets, idx + 1,
                  rm_idx)

\* A script run of step 1 in which no form is submitted and no button is
\* clicked; also the run that st.rerun() starts.
PlainDefineRun(file, session_fields, widgets) ==
    EditLoop(EditStart(load_fields(file, session_fields)), widgets, 1, 0)

\* The widgets after an interaction of step 1: a widget is keyed by the index
\* and the key of its field as loaded from the file, and keeps its value while
\* that key is rendered; a new key starts from the field's values.
WidgetsAfter(old_file, new_file, widgets) ==
    LET old == load_fields(old_file, <<>>)
        new == load_fields(new_file, <<>>)
    IN  [i \in 1..Len(new) |->
            IF i <= Len(old) /\ old[i].fieldKey = new[i].fieldKey /\ i <= Len(widgets)
            THEN widgets[i]
            ELSE [n |-> new[i].fieldKey, t |-> new[i].fieldType]]

InDefineStep == app_mode = Custom /\ step = DefineFields

\* The user picks a mode.  In the custom mode the script loads the fields and
\* shows the step radio; in the pre-built mode the step radio is not rendered
\* and is back at its first option when it is rendered again.  The uploader
\* of step 2 is not rendered either way and loses its files.
SelectMode(m) ==
    /\ m # app_mode
    /\ app_mode' = m
    /\ step' = DefineFields
    /\ edit_w' = WidgetDefaults(load_fields(fields_file, fields))
    /\ \E run \in {PlainDefineRun(fields_file, fields, edit_w')} :
          /\ fields' = IF m = Custom THEN run.fields ELSE fields
          /\ out' = IF m = Custom THEN run.out ELSE {}
    /\ sel_file' = NoSel
    /\ form_w' = <<>>
    /\ UNCHANGED <<fields_file, pureVars, storeVars>>

\* "Add" of the form add_custom_field with name nk and type nt (lines 274-279).
\* An accepted add appends the field and calls st.rerun(): the script starts
\* again, from load_fields().
AddField(nk, nt) ==
    /\ InDefineStep
    /\ LET loaded == load_fields(fields_file, fields)
           accepted == nk # <<>> /\ ~KeyExists(loaded, nk)
           appended == Append(loaded, FieldDef(Strip(nk), nt, "not-specified"))
           shown == IF nk = <<>> THEN {Msg("Name empty", <<>>)}
                    ELSE IF KeyExists(loaded, nk) THEN {Msg("exists", Strip(nk))}
                    ELSE {Msg("Added", Strip(nk))}
       IN  \E run \in {IF accepted THEN PlainDefineRun(fields_file, appended, edit_w)
                        ELSE EditLoop(EditStart(loaded), edit_w, 1, 0)} :
              /\ fields' = run.fields
              /\ out' = shown \cup run.out
    /\ UNCHANGED <<app_mode, step, fields_file, edit_w, pureVars, docVars>>

\* The user types uk in the Name widget of field idx (line 286).
EditName(idx, uk) ==
    /\ InDefineStep
    /\ idx \in 1..Len(edit_w)
    /\ edit_w[idx].n # uk
    /\ edit_w' = [edit_w EXCEPT ![idx].n = uk]
    /\ \E run \in {PlainDefineRun(fields_file, fields, edit_w')} :
          fields' = run.fields /\ out' = run.out
    /\ UNCHANGED <<app_mode, step, fields_file, pureVars, docVars>>

\* The user picks ut in the Type widget of field idx (line 289).
EditType(idx, ut) ==
    /\ InDefineStep
    /\ idx \in 1..Len(edit_w)
    /\ edit_w[idx].t # ut
    /\ edit_w' = [edit_w EXCEPT ![idx].t = ut]
    /\ \E run \in {PlainDefineRun(fields_file, fields, edit_w')} :
          fields' = run.fields /\ out' = run.out
    /\ UNCHANGED <<app_mode, step, fields_file, pureVars, docVars>>

\* The interaction of the remove button of field idx (lines 291 and 298-300):
\* rm_idxs gets idx and st.rerun() ends the run at once, so the removal of
\* line 299 is not reached; the run that follows starts with an empty rm_idxs.
RemoveRun(file, session_fields, widgets, idx) ==
    LET first == EditLoop(EditStart(load_fields(file, session_fields)), widgets, 1, idx)
        run == IF first.rerun THEN PlainDefineRun(file, first.fields, widgets) ELSE first
    IN  [fields |-> run.fields, out |-> first.out \cup run.out]

RemoveField(idx) ==
    /\ InDefineStep
    /\ idx \in 1..Len(edit_w)
    /\ \E run \in {RemoveRun(fields_file, fields, edit_w, idx)} :
          fields' = run.fields /\ out' = run.out
    /\ UNCHANGED <<app_mode, step, fields_file, edit_w, pureVars, docVars>>

\* len({f['fieldKey'].lower() for f in fields}) != len(fields)
DuplicateNames(fs) == Cardinality({Lower(fs[i].fieldKey) : i \in 1..Len(fs)}) # Len(fs)

\* "Save Field Config" (lines 301-303, save_fields); io_ok: the file can be written.
SaveFieldConfig(io_ok) ==
    /\ InDefineStep
    /\ \E run \in {PlainDefineRun(fields_file, fields, edit_w)} :
          LET saved == ~run.crashed /\ ~DuplicateNames(run.fields) /\ io_ok
          IN  /\ fields' = run.fields
              /\ fields_file' = IF saved THEN FileOf(run.fields) ELSE fields_file
              /\ out' = run.out \cup
                     (IF run.crashed THEN {}
                      ELSE IF DuplicateNames(run.fields)
                           THEN {Msg("Duplicate names", <<>>)}
                      ELSE IF io_ok THEN {Msg("Fields saved", <<>>)}
                      ELSE {Msg("Save fields err", <<>>)})
              /\ edit_w' = WidgetsAfter(fields_file, fields_file', edit_w)
    /\ UNCHANGED <<app_mode, step, pureVars, docVars>>

\* The user picks a step of the custom mode.  Step 2 starts without an
\* uploaded document: the uploader is rendered in step 2 only.
SelectStep(s) ==
    /\ app_mode = Custom
    /\ s # step
    /\ step' = s
    /\ edit_w' = WidgetDefaults(load_fields(fields_file, fields))
    /\ \E run \in {PlainDefineRun(fields_file, fields, edit_w')} :
          /\ fields' = IF s = DefineFields THEN run.fields
                       ELSE load_fields(fields_file, fields)
          /\ out' = IF s = DefineFields THEN run.out
                    ELSE IF load_fields(fields_file, fields) = <<>>
                         THEN {Msg("Define fields first", <<>>)} ELSE {}
    /\ sel_file' = NoSel
    /\ form_w' = <<>>
    /\ UNCHANGED <<app_mode, fields_file, pureVars, storeVars>>

\* ------------------------------------------------------- labeling (step 2)

\* re.sub(r'[\\/*?:"<>|]', "", sel_fname)
ForbiddenChars == {"\\", "/", "*", "?", ":", "\"", "<", ">", "|"}
CleanFileName(sel_fname) == SelectSeq(sel_fname, LAMBDA c : c \notin ForbiddenChars)

\* os.path.splitext(s)[0]: s up to its last dot, unless only dots precede it.
SplitExtRoot(s) ==
    LET dots == {i \in 1..Len(s) : s[i] = "."}
        last == CHOOSE i \in dots : \A j \in dots : j <= i
    IN  IF dots = {} THEN s
        ELSE IF \E j \in 1..(last - 1) : s[j] # "." THEN SubSeq(s, 1, last - 1)
        ELSE s

\* base_fn (line 321), the name of the document's label and OCR files.
BaseFn(sel_fname) == SplitExtRoot(CleanFileName(sel_fname))

\* The file of a directory, or the missing file.
FileAt(files, fn) == IF fn \in DOMAIN files THEN files[fn] ELSE NoLabelFile

\* "Loaded labels" of line 370, shown when the document has a label file.
LoadedInfo(files, fn) == IF fn \in DOMAIN files THEN {Msg("Loaded labels", fn)} ELSE {}

InLabelStep == app_mode = Custom /\ step = LabelDocuments

\* The messages of a run ended by st.stop() (lines 354-355 and 357-359).
StopMsgs == {"Azure Analysis error", "Analysis error"}

\* The labeling form was rendered by the last run: a document is selected,
\* its analysis result is in the session, and the run was not stopped
\* (st.stop(), lines 355 and 359).
FormShown ==
    /\ InLabelStep
    /\ fields # <<>>
    /\ sel_file.set
    /\ sel_file.name \in DOMAIN doc_cache
    /\ \A m \in out : m.msg \notin StopMsgs

\* The analysis that calls the recognizer whether or not a result is cached.
Analyze_Always(cache, kvps, sel_fname, doc_result, service_ok) ==
    IF ~service_ok
    THEN [out |-> {Msg("Analyzing", sel_fname), Msg("Azure Analysis error", sel_fname)},
          doc_cache |-> cache, kvp_cache |-> kvps, stopped |-> TRUE]
    ELSE [out |-> {Msg("Analyzing", sel_fname), Msg("Analysis complete", sel_fname)},
          doc_cache |-> DictSet(cache, sel_fname, doc_result),
          kvp_cache |-> DictSet(kvps, sel_fname, BuildDocKvpMap(doc_result).map),
          stopped |-> FALSE]

\* The analysis that stores what it was given also when the call fails.
Analyze_StoreOnFailure(cache, kvps, sel_fname, doc_result, service_ok) ==
    IF sel_fname \in DOMAIN cache
    THEN [out |-> {}, doc_cache |-> cache, kvp_cache |-> kvps, stopped |-> FALSE]
    ELSE [out |-> {Msg("Analyzing", sel_fname)} \cup
                  (IF service_ok THEN {Msg("Analysis complete", sel_fname)}
                   ELSE {Msg("Azure Analysis error", sel_fname)}),
          doc_cache |-> DictSet(cache, sel_fname, doc_result),
          kvp_cache |-> kvps, stopped |-> ~service_ok]

\* "Analyze if not cached" (lines 326-359) for the selected document, from the
\* session's results (cache) and suggestion maps (kvps).  No call is made when
\* a result is stored under the document's name.  service_ok tells whether
\* the recognizer call returns doc_result or raises.  The result is stored
\* before the suggestion map is built (line 335), so a NameError of the map
\* construction leaves the result without a map.  stopped: st.stop() was
\* reached.  "Analyzing" is the spinner of line 330.
Analyze(cache, kvps, sel_fname, doc_result, service_ok) ==
    IF sel_fname \in DOMAIN cache
    THEN [out |-> {}, doc_cache |-> cache, kvp_cache |-> kvps, stopped |-> FALSE]
    ELSE IF ~service_ok
    THEN [out |-> {Msg("Analyzing", sel_fname), Msg("Azure Analysis error", sel_fname)},
          doc_cache |-> cache, kvp_cache |-> kvps, stopped |-> TRUE]
    ELSE LET built == BuildDocKvpMap(doc_result)
         IN  [out |-> {Msg("Analyzing", sel_fname)} \cup
                      (IF built.error THEN {Msg("Analysis error", sel_fname)}
                       ELSE {Msg("Analysis complete", sel_fname)}),
              doc_cache |-> DictSet(cache, sel_fname, doc_result),
              kvp_cache |-> IF built.error THEN kvps
                            ELSE DictSet(kvps, sel_fname, built.map),
              stopped |-> built.error]

\* doc_kvp_map = st.session_state.get(doc_kvp_k, {})  (line 394)
KvpOf(kvps, sel_fname) == IF sel_fname \in DOMAIN kvps THEN kvps[sel_fname] ELSE EmptyDict

\* existing_labels (lines 362-369): the value list of each label of the
\* document's label file; of two records with one label the later one is kept.
ExistingLabels(file) ==
    LET recs == {r \in 1..Len(file.labels) : file.labels[r].label # <<>>}
    IN  [fk \in {file.labels[r].label : r \in recs} |->
            file.labels[CHOOSE r \in recs :
                           /\ file.labels[r].label = fk
                           /\ \A q \in recs : file.labels[q].label = fk => q <= r].value]

\* init_val that consults the suggestion map before the existing labels.
InitVal_SuggestionFirst(fk, existing_labels, doc_kvp_map) ==
    IF clean_key_for_matching(fk) \in DOMAIN doc_kvp_map
    THEN doc_kvp_map[clean_key_for_matching(fk)].content
    ELSE IF fk \in DOMAIN existing_labels /\ existing_labels[fk] # <<>>
         THEN existing_labels[fk][1].text
         ELSE <<>>

\* init_val of the input of field fk (lines 399-420).
InitVal(fk, existing_labels, doc_kvp_map) ==
    IF fk \in DOMAIN existing_labels /\ existing_labels[fk] # <<>>
    THEN existing_labels[fk][1].text
    ELSE LET clean_fk == clean_key_for_matching(fk)
         IN  IF clean_fk \in DOMAIN doc_kvp_map THEN doc_kvp_map[clean_fk].content
             ELSE <<>>

\* The initial values of the form's inputs, one per configured field.
InitVals(fs, file, doc_kvp_map) ==
    [i \in 1..Len(fs) |-> InitVal(fs[i].fieldKey, ExistingLabels(file), doc_kvp_map)]

\* The user uploads (or uploads again) a document called sel_fname and has it
\* selected; the recognizer would return doc_result for its bytes.  A run
\* that is not stopped loads the existing labels and builds the form.
OpenDoc(sel_fname, content, doc_result, service_ok) ==
    /\ InLabelStep
    /\ load_fields(fields_file, fields) # <<>>
    /\ fields' = load_fields(fields_file, fields)
    /\ sel_file' = [set |-> TRUE, name |-> sel_fname, content |-> content]
    /\ \E run \in {Analyze(doc_cache, kvp_cache, sel_fname, doc_result, service_ok)} :
          /\ doc_cache' = run.doc_cache
          /\ kvp_cache' = run.kvp_cache
          /\ out' = run.out \cup (IF run.stopped THEN {}
                                  ELSE LoadedInfo(label_files, BaseFn(sel_fname)))
          /\ form_w' = IF run.stopped THEN <<>>
                       ELSE InitVals(fields', FileAt(label_files, BaseFn(sel_fname)),
                                     KvpOf(run.kvp_cache, sel_fname))
    /\ UNCHANGED <<app_mode, step, fields_file, edit_w, label_files, ocr_files,
                   submitted, pureVars>>

\* The OCR reference that adds the words to those of the file it finds.
SaveOcr_Append(files, fn, doc_res, ocr_ok) ==
    IF ~ocr_ok THEN files
    ELSE IF fn \in DOMAIN files
         THEN DictSet(files, fn, [exists |-> TRUE,
                                  words |-> files[fn].words \o ocr_out(doc_res).words])
         ELSE DictSet(files, fn, ocr_out(doc_res))

\* "Save OCR ref" (lines 435-453): the file is written, or the exception of
\* the try block is shown.
SaveOcr(files, fn, doc_res, ocr_ok) ==
    IF ocr_ok THEN DictSet(files, fn, ocr_out(doc_res)) ELSE files

\* The label file written only after the OCR file was.
SaveLabelFile_AfterOcr(files, fn, content, ocr_ok, lbl_ok) ==
    IF ocr_ok /\ lbl_ok THEN DictSet(files, fn, content) ELSE files

\* The write of the label file (lines 552-555); what became of the OCR file
\* (ocr_ok) plays no part.
SaveLabelFile(files, fn, content, ocr_ok, lbl_ok) ==
    IF lbl_ok THEN DictSet(files, fn, content) ELSE files

\* "Save Labels for this Doc" with the texts of the form's inputs, one per
\* configured field (lines 431-555).  ocr_ok and lbl_ok: the OCR file and the
\* label file can be written.  The run builds the form, from the label file
\* as it is before the save, and then saves.
SubmitLabels(texts, ocr_ok, lbl_ok) ==
    /\ FormShown
    /\ Len(texts) = Len(fields)
    /\ \E base_fn \in {BaseFn(sel_file.name)},
          form_vals \in {FormVals(fields, texts)},
          all_doc_words \in {AllDocWords(doc_cache[sel_file.name])} :
          /\ ocr_files' = SaveOcr(ocr_files, base_fn, doc_cache[sel_file.name], ocr_ok)
          /\ label_files' =
                SaveLabelFile(label_files, base_fn,
                              final_lbl_fc(fields, form_vals, all_doc_words),
                              ocr_ok, lbl_ok)
          /\ submitted' = [done |-> TRUE, texts |-> texts,
                           loaded |-> FileAt(label_files, base_fn)]
          /\ form_w' = InitVals(fields, FileAt(label_files, base_fn),
                                KvpOf(kvp_cache, sel_file.name))
          /\ out' = LoadedInfo(label_files, base_fn)
                    \cup (IF ocr_ok THEN {Msg("OCR ref saved", base_fn)}
                          ELSE {Msg("OCR save err", base_fn)})
                    \cup SaveWarnings(form_vals, all_doc_words, 1)
                    \cup (IF lbl_ok THEN {Msg("Labels SAVED", base_fn)}
                          ELSE {Msg("Label save err", base_fn)})
    /\ UNCHANGED <<app_mode, step, fields, fields_file, edit_w, sel_file, doc_cache,
                   kvp_cache, pureVars>>

\* The same button with the inputs left as the form was built.
SubmitUnedited(ocr_ok, lbl_ok) == SubmitLabels(form_w, ocr_ok, lbl_ok)

\* ------------------------------------------------ specification SpecLocate

\* A word as the recognizer returns it; the polygon plays no part in the search.
LocWord(c) == [content |-> c, polygon |-> <<>>]

\* Analysis results of two pages holding at most MaxWords words in all.
LocDocs ==
    {[pages |-> <<[page_number |-> p1,
                   words |-> [k \in 1..b |-> LocWord(ws[k])]],
                  [page_number |-> p2,
                   words |-> [k \in 1..(Len(ws) - b) |-> LocWord(ws[b + k])]]>>] :
        <<ws, b, p1, p2>> \in
            {q \in TextsUpTo(WordPool, MaxWords) \X (0..MaxWords)
                    \X PageNumberPool \X PageNumberPool : q[2] <= Len(q[1])}}

InitLocate ==
    /\ kvp = IdleKvp /\ geo = IdleGeo /\ rem = IdleRem
    /\ IdleSession
    /\ loc \in {[searched |-> FALSE, doc_res |-> d, found_match |-> FALSE, matched |-> <<>>,
              text_value |-> <<>>, text |-> <<>>] : d \in LocDocs}

\* The save step's search for one field: the submitted text is stripped and,
\* when non-empty, searched in all_doc_words.  One search per behaviour: the
\* search reads nothing a previous search wrote.
LocateField(text) ==
    LET text_value == Strip(text)
        r == FindMatch(AllDocWords(loc.doc_res), text_value)
    IN  /\ ~loc.searched
        /\ text_value # <<>>
        /\ loc' = [loc EXCEPT !.searched = TRUE, !.text = text,
                              !.text_value = text_value,
                              !.found_match = r.found_match,
                              !.matched = r.matched]
        /\ UNCHANGED <<kvp, geo, rem, uiVars, docVars>>

NextLocate == \E text \in TextsUpTo(TextChars, MaxTextLen) : LocateField(text)

SpecLocate == InitLocate /\ [][NextLocate]_vars

\* ------------------------------------------------ claims on the search

RECURSIVE PageIndexFrom(_, _)
PageIndexFrom(pages, pg_idx) ==
    IF pg_idx > Len(pages) THEN <<>>
    ELSE [k \in 1..Len(pages[pg_idx].words) |-> pg_idx]
         \o PageIndexFrom(pages, pg_idx + 1)

\* For each word of all_doc_words, the index of the page it lies on.
LocPageIndex == PageIndexFrom(loc.doc_res.pages, 1)

LocWords == AllDocWords(loc.doc_res)

\* The contents of words i..j joined by single spaces.
RECURSIVE JoinWords(_, _, _)
JoinWords(words, i, j) ==
    IF i > j THEN <<>>
    ELSE IF i = j THEN words[i].content
    ELSE words[i].content \o <<Space>> \o JoinWords(words, i + 1, j)

\* Runs i..j of words lying on one page whose join is the searched text.
SamePageRuns ==
    {r \in (1..Len(LocWords)) \X (1..Len(LocWords)) :
        /\ r[1] <= r[2]
        /\ \A k \in r[1]..r[2] : LocPageIndex[k] = LocPageIndex[r[1]]
        /\ JoinWords(LocWords, r[1], r[2]) = loc.text_value}

\* Those of them made of words with non-empty text only.
SamePageTextRuns ==
    {r \in SamePageRuns : \A k \in r[1]..r[2] : LocWords[k].content # <<>>}

\* C1: when the searched text is the single-space join of a contiguous run of
\* words lying on one page, the search reports a match and returns the leftmost
\* such run.  Stated for runs of words with non-empty text, its weakest reading.
C1_LeftmostSamePageRun ==
    (loc.searched /\ SamePageTextRuns # {}) =>
        /\ loc.found_match
        /\ \E r \in SamePageTextRuns :
              /\ \A q \in SamePageTextRuns : r[1] <= q[1]
              /\ loc.matched = [k \in 1..(r[2] - r[1] + 1) |-> r[1] + k - 1]

\* C2: a reported match is a non-empty run at consecutive indices of the word
\* list, every matched word has non-empty text and the page number of the first,
\* and the texts joined by single spaces are the stripped submitted text.
C2_MatchIsExactRun ==
    (loc.searched /\ loc.found_match) =>
        /\ loc.matched # <<>>
        /\ \A k \in 1..Len(loc.matched) :
              /\ loc.matched[k] \in 1..Len(LocWords)
              /\ loc.matched[k] = loc.matched[1] + k - 1
              /\ LocWords[loc.matched[k]].content # <<>>
              /\ LocWords[loc.matched[k]].page = LocWords[loc.matched[1]].page
        /\ JoinWords(LocWords, loc.matched[1], loc.matched[Len(loc.matched)])
              = Strip(loc.text)

\* A match of two words or more, found for a text typed with surrounding blanks.
C2_Witness ==
    /\ loc.searched /\ loc.found_match
    /\ Len(loc.matched) >= 2
    /\ loc.text # loc.text_value

\* C3: when no contiguous run of words lying on one page joins to the searched
\* text, the search reports no match, whatever the pages' page numbers are.
C3_NoMatchAcrossPages ==
    (loc.searched /\ SamePageRuns = {}) => ~loc.found_match

\* --------------------------------------------------- specification SpecKvp

\* Names of typed fields; ":" normalizes to the empty key.
FieldNamePool == {<<"A", ":">>, <<"b">>, <<":">>}
\* Contents of typed fields; <<>> is a field without content.
FieldContentPool == {<<>>, <<"x">>}
\* kvp.key.content; <<>> is a pair without key or with a key without content.
KvpKeyPool == {<<>>, <<"a">>, <<"B", ".">>}

FieldObj(name, content) == [name |-> name, content |-> content, kind |-> "field"]
ValueObj(key, content) == [name |-> key, content |-> content, kind |-> "kvp"]

\* doc.fields of the two documents: a dict, so names differ within a document.
KvpFieldLists ==
    {fs \in TextsUpTo(FieldNamePool \X FieldContentPool, MaxDocFields) \X (0..MaxDocFields) :
        /\ fs[2] <= Len(fs[1])
        /\ \A i, j \in 1..Len(fs[1]) :
              (i < j /\ fs[1][i][1] = fs[1][j][1]) => (i <= fs[2] /\ fs[2] < j)}

KvpFieldSeq(fl, from, n) ==
    [k \in 1..n |-> [name |-> fl[from + k][1],
                     fobj |-> FieldObj(fl[from + k][1], fl[from + k][2])]]

KvpPairLists == TextsUpTo(KvpKeyPool \X BOOLEAN, MaxKvps)

KvpDocs ==
    {[documents |-> <<[fields |-> KvpFieldSeq(fs[1], 0, fs[2])],
                      [fields |-> KvpFieldSeq(fs[1], fs[2], Len(fs[1]) - fs[2])]>>,
      key_value_pairs |->
          [k \in 1..Len(ps) |-> [key |-> ps[k][1], value |-> ValueObj(ps[k][1], <<"v">>),
                                 has_value |-> ps[k][2]]]] :
        <<fs, ps>> \in KvpFieldLists \X KvpPairLists}

InitKvp ==
    /\ loc = IdleLoc /\ geo = IdleGeo /\ rem = IdleRem
    /\ IdleSession
    /\ kvp \in {[built |-> FALSE, error |-> FALSE, doc_result |-> d,
              doc_kvp_map |-> EmptyDict, typed_error |-> FALSE, typed_map |-> EmptyDict] :
                d \in KvpDocs}

\* The construction of doc_kvp_map after a successful analysis call.
BuildSuggestions ==
    LET typed == TypedPass(kvp.doc_result)
        final == BuildDocKvpMap(kvp.doc_result)
    IN  /\ ~kvp.built
        /\ kvp' = [kvp EXCEPT !.built = TRUE, !.typed_error = typed.error,
                              !.error = final.error, !.typed_map = typed.map,
                              !.doc_kvp_map = final.map]
        /\ UNCHANGED <<loc, geo, rem, uiVars, docVars>>

NextKvp == BuildSuggestions

SpecKvp == InitKvp /\ [][NextKvp]_vars

\* C9: a key-value pair never replaces the entry of a typed field: every key
\* of the map after the typed-field pass still holds the same typed-field
\* object in the finished map.
C9_TypedFieldsKept ==
    (kvp.built /\ ~kvp.error) =>
        \A k \in DOMAIN kvp.typed_map :
            /\ k \in DOMAIN kvp.doc_kvp_map
            /\ kvp.doc_kvp_map[k].kind = "field"
            /\ kvp.doc_kvp_map[k] = kvp.typed_map[k]

\* A finished map where a key-value pair with a value normalizes to the key of
\* a typed-field entry, and another pair did enter the map.
C9_Witness ==
    /\ kvp.built /\ ~kvp.error
    /\ \E i \in 1..Len(kvp.doc_result.key_value_pairs) :
          LET pair == kvp.doc_result.key_value_pairs[i]
          IN  /\ pair.key # <<>> /\ pair.has_value
              /\ clean_key_for_matching(pair.key) \in DOMAIN kvp.typed_map
    /\ \E k \in DOMAIN kvp.doc_kvp_map : kvp.doc_kvp_map[k].kind = "kvp"

\* C10: after the typed-field pass every entry is a typed field with non-empty
\* content, stored under the normalized form of its own name.
C10_TypedPassEntries ==
    (kvp.built /\ ~kvp.typed_error) =>
        \A k \in DOMAIN kvp.typed_map :
            /\ kvp.typed_map[k].kind = "field"
            /\ kvp.typed_map[k].content # <<>>
            /\ k = clean_key_for_matching(kvp.typed_map[k].name)

\* ------------------------------------------------ specification SpecFields

\* Field lists a fields file holds when the session starts.
FilePool ==
    {NoFile,
     FileOf(<<FieldDef(<<"A">>, "string", "not-specified"),
              FieldDef(<<"B">>, "number", "not-specified")>>),
     FileOf(<<FieldDef(<<"A">>, "string", "not-specified"),
              FieldDef(<<"a">>, "string", "not-specified")>>)}

\* Names the user types, and types the user picks.
NamePool == {<<>>, <<"a">>, <<" ", "B">>, <<"c">>}
TypePool == {"string", "number"}

InitFields ==
    /\ IdlePure
    /\ IdleDocs
    /\ app_mode = PreBuilt
    /\ step = DefineFields
    /\ fields = <<>>
    /\ fields_file \in FilePool
    /\ edit_w = WidgetDefaults(load_fields(fields_file, fields))
    /\ out = {}

NextFields ==
    \/ \E m \in {PreBuilt, Custom} : SelectMode(m)
    \/ \E s \in {DefineFields, LabelDocuments} : SelectStep(s)
    \/ \E nk \in NamePool, nt \in TypePool : AddField(nk, nt)
    \/ \E idx \in 1..2, uk \in NamePool : EditName(idx, uk)
    \/ \E idx \in 1..2, ut \in TypePool : EditType(idx, ut)
    \/ \E idx \in 1..2 : RemoveField(idx)
    \/ \E io_ok \in BOOLEAN : SaveFieldConfig(io_ok)

SpecFields == InitFields /\ [][NextFields]_vars

\* str.lower() and str.strip() applied to a key: the form keys are compared in.
NormKey(k) == Lower(Strip(k))

\* C7: no two configured fields have keys that are equal ignoring case and
\* surrounding whitespace.
C7_KeysUnique ==
    \A i, j \in 1..Len(fields) :
        i # j => NormKey(fields[i].fieldKey) # NormKey(fields[j].fieldKey)

\* C8: a field whose add was accepted ("Added ...") is in the configured list
\* when the interaction ends.
C8_AddedFieldStays ==
    \A m \in out :
        m.msg = "Added" => \E i \in 1..Len(fields) : fields[i].fieldKey = m.arg

\* ------------------------------------------------------- specification Spec

\* The fields file the session starts with.
StartFile ==
    FileOf(<<FieldDef(<<"A">>, "string", "not-specified"),
             FieldDef(<<"B">>, "number", "not-specified")>>)

\* The names of the documents the user uploads.
DocNames == {<<"d", "?", ".", "p">>}

Rect(x1, y1, x2, y2) == <<Point(x1, y1), Point(x2, y1), Point(x2, y2), Point(x1, y2)>>
Word(c, polygon) == [content |-> c, polygon |-> polygon, confidence |-> 9]

\* What the recognizer returns for the two contents a document can have.
\* Content 1: "a" and "b" on page 1, the second with a flat polygon; on page 2
\* "c" without polygon and "x" with a flat polygon of odd length; a typed
\* field and a key-value pair.  Content 2: one page without page number; its
\* first typed field has no content.
AnalysisOf(content) ==
    IF content = 1
    THEN [pages |->
             <<[page_number |-> 1,
                words |-> <<Word(<<"a">>, Rect(1, 1, 2, 2)),
                            Word(<<"b">>, <<Number(3), Number(1), Number(4), Number(1),
                                            Number(4), Number(3), Number(3), Number(3)>>)>>],
               [page_number |-> 2,
                words |-> <<Word(<<"c">>, <<>>),
                            Word(<<"x">>, <<Number(1), Number(2), Number(3)>>)>>]>>,
          documents |->
             <<[fields |-> <<[name |-> <<"A", ":">>,
                              fobj |-> FieldObj(<<"A", ":">>, <<"x">>)]>>]>>,
          key_value_pairs |->
             <<[key |-> <<"B">>, value |-> ValueObj(<<"B">>, <<"v">>),
                has_value |-> TRUE]>>]
    ELSE [pages |->
             <<[page_number |-> 0,
                words |-> <<Word(<<"c">>, Rect(5, 5, 6, 7)), Word(<<"a">>, <<>>)>>]>>,
          documents |->
             <<[fields |-> <<[name |-> <<"A">>, fobj |-> FieldObj(<<"A">>, <<>>)]>>]>>,
          key_value_pairs |-> <<>>]

Contents == {1, 2}

\* Texts the user submits for the two fields: blank, found with a box (after
\* trimming), found without polygon, not found.
SubmitPool ==
    {<<<<" ">>, <<"a", " ", "b", " ">>>>,
     <<<<"a", " ", "b">>, <<"c">>>>,
     <<<<"c">>, <<"b", " ", "a">>>>,
     <<<<"x">>, <<>>>>}

Init ==
    /\ IdlePure
    /\ IdleDocs
    /\ app_mode = PreBuilt
    /\ step = DefineFields
    /\ fields = <<>>
    /\ fields_file = StartFile
    /\ edit_w = WidgetDefaults(load_fields(fields_file, fields))
    /\ out = {}

Next ==
    \/ \E m \in {PreBuilt, Custom} : SelectMode(m)
    \/ \E s \in {DefineFields, LabelDocuments} : SelectStep(s)
    \/ EditName(2, <<"c">>)
    \/ EditType(1, "date")
    \/ SaveFieldConfig(TRUE)
    \/ \E n \in DocNames, c \in Contents, service_ok \in BOOLEAN :
          OpenDoc(n, c, AnalysisOf(c), service_ok)
    \/ \E texts \in SubmitPool, ocr_ok, lbl_ok \in BOOLEAN :
          SubmitLabels(texts, ocr_ok, lbl_ok)
    \/ SubmitUnedited(TRUE, TRUE)

Spec == Init /\ [][Next]_vars

\* ----------------------------------------------- specification SpecGeometry

\* Polygons of a word: missing, four Points, one Point, a flat list of even
\* length and a flat list of odd length.
PolygonPool ==
    {<<>>,
     Rect(1, 1, 2, 2),
     <<Point(3, 0)>>,
     <<Number(0), Number(2), Number(4), Number(1)>>,
     <<Number(5), Number(5), Number(5)>>}

InitGeometry ==
    /\ loc = IdleLoc /\ kvp = IdleKvp /\ rem = IdleRem
    /\ IdleSession
    /\ geo \in {[combined |-> FALSE, polygons |-> ps, result |-> <<>>] :
                  ps \in TextsUpTo(PolygonPool, MaxPolygons)}

\* One call of combine_polygons.
CombinePolygons ==
    /\ ~geo.combined
    /\ geo' = [geo EXCEPT !.combined = TRUE, !.result = combine_polygons(geo.polygons)]
    /\ UNCHANGED <<loc, kvp, rem, uiVars, docVars>>

NextGeometry == CombinePolygons

SpecGeometry == InitGeometry /\ [][NextGeometry]_vars

\* The points of a polygon, as pairs: its Point objects, or the pairs of a
\* flat list of even length.
PointsOf(polygon) ==
    IF polygon = <<>> THEN {}
    ELSE IF polygon[1].k = "Point"
         THEN {<<polygon[i].x, polygon[i].y>> : i \in 1..Len(polygon)}
    ELSE IF Len(polygon) % 2 = 0
         THEN {<<polygon[2 * i - 1].v, polygon[2 * i].v>> : i \in 1..(Len(polygon) \div 2)}
    ELSE {}

PointsOfAll(polygons) == UNION {PointsOf(polygons[k]) : k \in 1..Len(polygons)}

MinOf(S) == CHOOSE x \in S : \A y \in S : x <= y
MaxOf(S) == CHOOSE x \in S : \A y \in S : y <= x

\* The corners of the smallest axis-aligned rectangle around a set of points.
CornersOf(P) ==
    LET xs == {p[1] : p \in P}
        ys == {p[2] : p \in P}
    IN  <<Point(MinOf(xs), MinOf(ys)), Point(MaxOf(xs), MinOf(ys)),
          Point(MaxOf(xs), MaxOf(ys)), Point(MinOf(xs), MaxOf(ys))>>

\* C15 as stated: combine_polygons returns none exactly when the list is
\* empty or holds only empty or missing polygons; otherwise it returns the
\* corners of the smallest rectangle around all points.
C15_NoneIffAllEmpty ==
    geo.combined =>
        /\ geo.result = <<>> <=> \A k \in 1..Len(geo.polygons) : geo.polygons[k] = <<>>
        /\ geo.result # <<>> => geo.result = CornersOf(PointsOfAll(geo.polygons))

\* C15 amended: combine_polygons returns none exactly when no polygon of the
\* list contributes a point (the list is empty, or each polygon is empty,
\* missing, or a flat list of odd length, which is skipped); otherwise it
\* returns the corners (minX,minY), (maxX,minY), (maxX,maxY), (minX,maxY) of
\* the smallest rectangle around the points of the other polygons.
C15_NoneIffNoPoint ==
    geo.combined =>
        /\ geo.result = <<>> <=> PointsOfAll(geo.polygons) = {}
        /\ geo.result # <<>> => geo.result = CornersOf(PointsOfAll(geo.polygons))

\* A box from a list of Points, a flat list and a skipped polygon.
C15_Witness ==
    /\ geo.combined
    /\ geo.result # <<>>
    /\ \E k \in 1..Len(geo.polygons) :
          geo.polygons[k] # <<>> /\ geo.polygons[k][1].k = "Point"
    /\ \E k \in 1..Len(geo.polygons) :
          geo.polygons[k] # <<>> /\ geo.polygons[k][1].k = "number"
             /\ Len(geo.polygons[k]) % 2 = 0
    /\ \E k \in 1..Len(geo.polygons) :
          geo.polygons[k] # <<>> /\ PointsOf(geo.polygons[k]) = {}

\* ------------------------------------------------- claims on the label save

\* The last interaction saved the label file of the selected document.
Saved == \E m \in out : m.msg = "Labels SAVED"
SavedFile == label_files[BaseFn(sel_file.name)]
SavedWords == AllDocWords(doc_cache[sel_file.name])

\* The values of all label records of a label file.
ValuesOf(file) ==
    UNION {{file.labels[r].value[q] : q \in 1..Len(file.labels[r].value)} :
              r \in 1..Len(file.labels)}

\* A polygon that contributes points to a bounding box.
HasPoints(polygon) ==
    polygon # <<>> /\ (polygon[1].k = "Point" \/ Len(polygon) % 2 = 0)

\* The word-sequence search finds text, and a matched word has points.
MatchWithBox(words, text) ==
    LET r == FindMatch(words, text)
    IN  r.found_match /\ \E k \in 1..Len(r.matched) : HasPoints(words[r.matched[k]].polygon)

\* C4 as stated: in every label value written by a save, page and polygon are
\* both present or both absent, and they are present if and only if the
\* word-sequence search found a match for the value's text.
C4_LocationIffMatch ==
    Saved =>
        \A v \in ValuesOf(SavedFile) :
            /\ v.has_page <=> v.has_polygon
            /\ v.has_polygon <=> FindMatch(SavedWords, v.text).found_match

\* C4 amended: page and polygon are both present or both absent, and they are
\* present if and only if the search found a match and the polygons of the
\* matched words give a bounding box (some matched word has a polygon with
\* points); in every other case the value holds the text only.
C4_LocationIffMatchWithBox ==
    Saved =>
        \A v \in ValuesOf(SavedFile) :
            /\ v.has_page <=> v.has_polygon
            /\ v.has_polygon <=> MatchWithBox(SavedWords, v.text)
            /\ ~v.has_polygon => v = TextOnly(v.text)

\* A save that wrote a value with page and polygon, and a value whose text was
\* found in words without polygon.
C4_Witness ==
    /\ Saved
    /\ \E v \in ValuesOf(SavedFile) : v.has_page /\ v.has_polygon
    /\ \E v \in ValuesOf(SavedFile) :
          ~v.has_polygon /\ FindMatch(SavedWords, v.text).found_match

\* The configured fields whose submitted text is not blank, and the r-th of them.
NonBlank == {i \in 1..Len(fields) : Strip(submitted.texts[i]) # <<>>}
NthNonBlank(r) == CHOOSE i \in NonBlank : Cardinality({j \in NonBlank : j <= i}) = r

\* C5: after a label save the labels list holds one record for each configured
\* field whose submitted text is not empty after trimming and no other record,
\* in the order of the configured fields; each record has exactly one value,
\* whose text is the trimmed submitted text.
C5_OneRecordPerNonBlankField ==
    Saved =>
        /\ Len(SavedFile.labels) = Cardinality(NonBlank)
        /\ \A r \in 1..Len(SavedFile.labels) :
              /\ SavedFile.labels[r].label = fields[NthNonBlank(r)].fieldKey
              /\ Len(SavedFile.labels[r].value) = 1
              /\ SavedFile.labels[r].value[1].text = Strip(submitted.texts[NthNonBlank(r)])

\* A save where one field was left blank and another text had to be trimmed.
C5_Witness ==
    /\ Saved
    /\ \E i \in 1..Len(fields) : i \notin NonBlank
    /\ \E i \in NonBlank : Strip(submitted.texts[i]) # submitted.texts[i]

\* C6: after a successful label save the fields map of the stored file has
\* exactly the configured keys with their current types, and every label
\* record belongs to a configured field with non-blank text: nothing of the
\* document's previous label file is kept.
C6_FileIsCurrentConfiguration ==
    Saved =>
        /\ DOMAIN SavedFile.fields = {fields[i].fieldKey : i \in 1..Len(fields)}
        /\ \A i \in 1..Len(fields) :
              SavedFile.fields[fields[i].fieldKey] = [fieldType |-> fields[i].fieldType]
        /\ \A r \in 1..Len(SavedFile.labels) :
              \E i \in NonBlank : SavedFile.labels[r].label = fields[i].fieldKey

\* A save over a previous label file that held a key no longer configured, a
\* key whose type has changed, and a record of a field now left blank.
C6_Witness ==
    /\ Saved
    /\ submitted.loaded.exists
    /\ \E k \in DOMAIN submitted.loaded.fields : k \notin DOMAIN SavedFile.fields
    /\ \E k \in DOMAIN submitted.loaded.fields :
          k \in DOMAIN SavedFile.fields /\ submitted.loaded.fields[k] # SavedFile.fields[k]
    /\ \E r \in 1..Len(submitted.loaded.labels) :
          \A q \in 1..Len(SavedFile.labels) :
              SavedFile.labels[q].label # submitted.loaded.labels[r].label

\* The polygon points of the words a search matched.
MatchedPoints(words, text) ==
    LET r == FindMatch(words, text)
    IN  UNION {PointsOf(words[r.matched[k]].polygon) : k \in 1..Len(r.matched)}

\* The flat coordinates of four corners.
FlatCorners(c) ==
    <<c[1].x, c[1].y, c[2].x, c[2].y, c[3].x, c[3].y, c[4].x, c[4].y>>

\* C16: for every label value saved with a location, the polygon is the eight
\* flat coordinates of the smallest axis-aligned rectangle around every
\* polygon point of every matched word, and the page is the page number that
\* all matched words have.
C16_LocationIsBoundingBox ==
    Saved =>
        \A v \in ValuesOf(SavedFile) :
            v.has_polygon =>
                /\ v.polygon = FlatCorners(CornersOf(MatchedPoints(SavedWords, v.text)))
                /\ v.has_page
                /\ \A k \in 1..Len(FindMatch(SavedWords, v.text).matched) :
                      SavedWords[FindMatch(SavedWords, v.text).matched[k]].page = v.page

\* A saved location whose match has two words with points, on page 1.
C16_Witness ==
    /\ Saved
    /\ \E v \in ValuesOf(SavedFile) :
          /\ v.has_polygon /\ v.page = 1
          /\ \E j, k \in 1..Len(FindMatch(SavedWords, v.text).matched) :
                /\ j # k
                /\ PointsOf(SavedWords[FindMatch(SavedWords, v.text).matched[j]].polygon) # {}
                /\ PointsOf(SavedWords[FindMatch(SavedWords, v.text).matched[k]].polygon) # {}

\* The text a label file holds for a field key; <<>> when it holds no record.
TextIn(file, fk) ==
    IF \E r \in 1..Len(file.labels) : file.labels[r].label = fk
    THEN file.labels[CHOOSE r \in 1..Len(file.labels) :
                        file.labels[r].label = fk].value[1].text
    ELSE <<>>

\* The save that just happened had the final texts of the save that wrote the
\* label file it found, and the same configured fields.
SameSaveAgain ==
    /\ Saved
    /\ submitted.loaded.exists
    /\ submitted.loaded.fields = SavedFile.fields
    /\ \A i \in 1..Len(fields) :
          Strip(submitted.texts[i]) = TextIn(submitted.loaded, fields[i].fieldKey)

\* C17: a save with the configured fields and the final texts of the previous
\* save of the document writes the label file it found, and every OCR
\* reference is the one of the document's stored result, whichever save wrote it.
C17_SavesAreReproducible ==
    /\ SameSaveAgain => SavedFile = submitted.loaded
    /\ \A n \in DOMAIN doc_cache :
          BaseFn(n) \in DOMAIN ocr_files => ocr_files[BaseFn(n)] = ocr_out(doc_cache[n])

\* A second save whose texts were the initial values of the form, taken from
\* the label file of the first, with a located value and a second OCR write.
C17_Witness ==
    /\ SameSaveAgain
    /\ submitted.texts = form_w
    /\ \E v \in ValuesOf(SavedFile) : v.has_polygon
    /\ \E m \in out : m.msg = "OCR ref saved"

\* The last run was a submit of the form: it built the form from the label
\* file it found, before saving.
SubmitRun == \E m \in out : m.msg \in {"OCR ref saved", "OCR save err"}
FormFile ==
    IF SubmitRun THEN submitted.loaded ELSE FileAt(label_files, BaseFn(sel_file.name))

\* C20: in the labeling form a field with a record in the document's label
\* file starts with the text of the record's first value, whatever the
\* suggestion map holds; a field without record starts with the content of
\* the suggestion stored under its normalized key, and with the empty text
\* when there is none.
C20_PrefillLabelThenSuggestion ==
    FormShown =>
        \A i \in 1..Len(fields) :
            LET fk == fields[i].fieldKey
                recs == {r \in 1..Len(FormFile.labels) :
                            FormFile.labels[r].label = fk /\ FormFile.labels[r].value # <<>>}
                sugg == KvpOf(kvp_cache, sel_file.name)
            IN  IF recs # {}
                THEN \A r \in recs : form_w[i] = FormFile.labels[r].value[1].text
                ELSE IF clean_key_for_matching(fk) \in DOMAIN sugg
                     THEN form_w[i] = sugg[clean_key_for_matching(fk)].content
                     ELSE form_w[i] = <<>>

\* A form with a field whose stored label differs from its suggestion, and a
\* field without label that has a suggestion.
C20_Witness ==
    /\ FormShown
    /\ \E i \in 1..Len(fields) :
          /\ TextIn(FormFile, fields[i].fieldKey) # <<>>
          /\ clean_key_for_matching(fields[i].fieldKey)
                \in DOMAIN KvpOf(kvp_cache, sel_file.name)
          /\ KvpOf(kvp_cache, sel_file.name)[clean_key_for_matching(fields[i].fieldKey)].content
                # TextIn(FormFile, fields[i].fieldKey)
    /\ \E i \in 1..Len(fields) :
          /\ TextIn(FormFile, fields[i].fieldKey) = <<>>
          /\ form_w[i] # <<>>

\* ------------------------------------------------- specification SpecCache

\* The analysis cache of a session in which two documents are uploaded, each
\* with one of the two contents, and labels are saved with one pair of texts.
CacheNames == {<<"d", "?", ".", "p">>, <<"p">>}
CacheTexts == <<<<"a", " ", "b">>, <<"c">>>>

InitCache ==
    /\ IdlePure
    /\ IdleDocs
    /\ app_mode = PreBuilt
    /\ step = DefineFields
    /\ fields = <<>>
    /\ fields_file = StartFile
    /\ edit_w = WidgetDefaults(load_fields(fields_file, fields))
    /\ out = {}

NextCache ==
    \/ \E m \in {PreBuilt, Custom} : SelectMode(m)
    \/ \E s \in {DefineFields, LabelDocuments} : SelectStep(s)
    \/ \E n \in CacheNames, c \in Contents, service_ok \in BOOLEAN :
          OpenDoc(n, c, AnalysisOf(c), service_ok)
    \/ \E ocr_ok, lbl_ok \in BOOLEAN : SubmitLabels(CacheTexts, ocr_ok, lbl_ok)

SpecCache == InitCache /\ [][NextCache]_vars

\* C11: once a result is stored for a document name, no later interaction
\* calls the recognizer for that name or changes the stored result; so at
\* most one successful call is made per name.
C11_NoSecondAnalysis ==
    [][\A n \in CacheNames :
          n \in DOMAIN doc_cache =>
              /\ n \in DOMAIN doc_cache'
              /\ doc_cache'[n] = doc_cache[n]
              /\ Msg("Analyzing", n) \notin out']_vars

\* A document selected again after its analysis: the form is built from the
\* stored result without a call, although the upload has another content.
C11_Witness ==
    /\ FormShown
    /\ Msg("Analyzing", sel_file.name) \notin out
    /\ doc_cache[sel_file.name] # AnalysisOf(sel_file.content)

\* C12: the result the labeling form works on is the analysis of the file
\* that is uploaded now.
C12_FormUsesCurrentUpload ==
    FormShown => doc_cache[sel_file.name] = AnalysisOf(sel_file.content)

\* C13: an interaction whose recognizer call fails stores neither a result nor
\* a suggestion map for the document, changes no stored result, map or file,
\* and builds no form; the next interaction that selects the document calls
\* the recognizer again.
C13_FailedCallStoresNothing ==
    [][\A n \in CacheNames :
          /\ Msg("Azure Analysis error", n) \in out' =>
                /\ n \notin DOMAIN doc_cache' /\ n \notin DOMAIN kvp_cache'
                /\ doc_cache' = doc_cache /\ kvp_cache' = kvp_cache
                /\ label_files' = label_files /\ ocr_files' = ocr_files
                /\ form_w' = <<>>
          /\ (Msg("Azure Analysis error", n) \in out /\ sel_file'.set
                 /\ sel_file'.name = n) =>
                Msg("Analyzing", n) \in out']_vars

\* A failed call for one document while the other document has a stored
\* result and a label file.
C13_Witness ==
    /\ sel_file.set
    /\ Msg("Azure Analysis error", sel_file.name) \in out
    /\ doc_cache # EmptyDict
    /\ label_files # EmptyDict

\* C19: a document has a stored result exactly when it has a stored
\* suggestion map.
C19_ResultIffMap == DOMAIN doc_cache = DOMAIN kvp_cache

\* The number of words of an analysis result.
RECURSIVE WordCount(_, _)
WordCount(pages, k) ==
    IF k > Len(pages) THEN 0 ELSE Len(pages[k].words) + WordCount(pages, k + 1)

\* C14: in a label save the two files are written independently.  When the
\* OCR reference fails and the label file does not, the label file is
\* written, with one record per non-blank text; when the label file fails and
\* the OCR reference does not, the OCR reference is written, with every word
\* of the result, and stays; a failure of either changes neither the
\* configured fields, the fields file nor the stored results and maps.
C14_IndependentWrites ==
    [][\A fn \in {BaseFn(n) : n \in CacheNames} :
          /\ (Msg("OCR save err", fn) \in out' /\ Msg("Labels SAVED", fn) \in out') =>
                /\ ocr_files' = ocr_files
                /\ fn \in DOMAIN label_files'
                /\ label_files'[fn].exists
                /\ Len(label_files'[fn].labels) =
                      Cardinality({i \in 1..Len(submitted'.texts) :
                                      Strip(submitted'.texts[i]) # <<>>})
          /\ (Msg("Label save err", fn) \in out' /\ Msg("OCR ref saved", fn) \in out') =>
                /\ label_files' = label_files
                /\ fn \in DOMAIN ocr_files'
                /\ ocr_files'[fn].exists
                /\ Len(ocr_files'[fn].words) = WordCount(doc_cache[sel_file.name].pages, 1)
          /\ (Msg("OCR save err", fn) \in out' \/ Msg("Label save err", fn) \in out') =>
                /\ fields' = fields /\ fields_file' = fields_file
                /\ doc_cache' = doc_cache /\ kvp_cache' = kvp_cache]_vars

\* A save whose OCR reference failed, for a document without OCR file, and
\* whose label file was written.
C14_Witness ==
    /\ sel_file.set
    /\ Msg("OCR save err", BaseFn(sel_file.name)) \in out
    /\ Msg("Labels SAVED", BaseFn(sel_file.name)) \in out
    /\ BaseFn(sel_file.name) \notin DOMAIN ocr_files
    /\ BaseFn(sel_file.name) \in DOMAIN label_files

\* ------------------------------------------------- specification SpecRemove

RemKeyPool == {<<"A">>, <<"B">>, <<"c">>, <<"d">>}

\* Field lists of a fields file: up to MaxRemFields fields with keys that
\* differ ignoring case.
RemFieldLists ==
    {[i \in 1..Len(ks) |-> FieldDef(ks[i][1], ks[i][2], "not-specified")] :
        ks \in {q \in TextsUpTo(RemKeyPool \X TypePool, MaxRemFields) :
                   /\ q # <<>>
                   /\ \A i, j \in 1..Len(q) : i # j => q[i][1] # q[j][1]}}

InitRemove ==
    /\ loc = IdleLoc /\ kvp = IdleKvp /\ geo = IdleGeo
    /\ IdleSession
    /\ rem \in {[clicked |-> FALSE, file |-> FileOf(fs), idx |-> i,
                 before |-> <<>>, after |-> <<>>] :
                  <<fs, i>> \in {q \in RemFieldLists \X (1..MaxRemFields) :
                                    q[2] <= Len(q[1])}}

\* The remove button of field rem.idx in a session that shows the fields of
\* the file, with the Name and Type inputs as they were built.
ClickRemove ==
    /\ ~rem.clicked
    /\ \E before \in {load_fields(rem.file, <<>>)} :
          rem' = [rem EXCEPT
                     !.clicked = TRUE,
                     !.before = before,
                     !.after = RemoveRun(rem.file, before, WidgetDefaults(before),
                                         rem.idx).fields]
    /\ UNCHANGED <<loc, kvp, geo, uiVars, docVars>>

NextRemove == ClickRemove

SpecRemove == InitRemove /\ [][NextRemove]_vars

\* A list without its element number idx.
Without(seq, idx) ==
    [k \in 1..(Len(seq) - 1) |-> IF k < idx THEN seq[k] ELSE seq[k + 1]]

\* C18: after the removal of a field was triggered, the configured list is
\* the previous list without that field: the other definitions are unchanged
\* and in their order.
C18_RemovedFieldIsGone ==
    rem.clicked => rem.after = Without(rem.before, rem.idx)

====
